---- MODULE Spec2Model ----
(***************************************************************************)
(* Large-file transfer and signed-download gateway of telegram-uploader.   *)
(*                                                                         *)
(*   utils/signature      generateSignedUrl, validateSignedUrl,            *)
(*                        createSignedRedirectUrl                          *)
(*   routes/download      handleRedirect, streamFile (plain download)      *)
(*   services/permission  canUpload, isAdmin, grant / revoke               *)
(*   services/telegram    the bot's upload handlers                        *)
(*   routes/admin         authenticateAdmin, the /admin endpoints          *)
(*   index                the cluster of worker processes                  *)
(*   services/mtproto     init, sendAuthCode, signIn (the handshake),      *)
(*                        uploadLargeFile (chunked upload)                 *)
(*                                                                         *)
(* Strings the code inspects character by character (route parameters,     *)
(* query parameters, hex signatures) are sequences of one-character        *)
(* strings; strings the code only concatenates and hashes are TLA+ strings.*)
(***************************************************************************)
EXTENDS Integers, Sequences, FiniteSets, TLC

(***************************************************************************)
(* Bounds of the model.                                                    *)
(***************************************************************************)
\* bytes of a digest (SHA-256 has 32; the codec never depends on the number)
DigestBytes == 2
\* the clock ranges over k * TTL + {-1, 0, 1}, k \in 0..MaxPeriods
MaxPeriods == 1
\* concurrent uploadLargeFile calls
MaxSessions == 2
\* rows of table Download counted for one file
MaxDownloads == 2
\* values of Math.floor(Math.random() * 1000000000) that are drawn
MaxUploadIds == 2
\* sendAuthCode / signIn calls in flight at the same time
MaxAuthCalls == 2
\* codes the backend dispatches (auth.sendCode calls it accepts)
MaxDispatches == 2
\* the part counts around which file sizes are drawn for the chunk math
MaxParts == 3
\* rows of table UploadFile the bot handlers create
MaxBotUploads == 2
\* worker processes forked by the cluster primary
MaxWorkers == 2

(***************************************************************************)
(* utils/signature: constants                                              *)
(***************************************************************************)
SIGNATURE_EXPIRY_MS == 15 * 60 * 1000

\* an absent (undefined) or empty string argument: both are falsy in
\* `ipAddress ? ... : ""`, `req.ip || ""` and `!expires`
NoIp == ""

ClockValues ==
  { t \in { k * SIGNATURE_EXPIRY_MS + d : k \in 0..MaxPeriods, d \in {-1, 0, 1} } : t >= 0 }

\* values of req.ip / of the ipAddress argument
IpSeq == << NoIp, "10.0.0.1", "10.0.0.2" >>
IPs == { IpSeq[i] : i \in 1..Len(IpSeq) }

\* route parameters: database ids, backend handles (BQA.., AAD.., CQA..) and
\* near misses of the handle prefixes
FileIdSeq ==
  << <<"f", "1">>, <<"f", "2">>, <<"f", "3">>,
     <<"B", "Q", "A", "x">>, <<"A", "A", "D">>, <<"C", "Q", "A", "9">>,
     <<"b", "q", "a", "x">>, <<"B", "Q">>, <<"f", "4">> >>
FileIds == { FileIdSeq[i] : i \in 1..Len(FileIdSeq) }

(***************************************************************************)
(* String helpers                                                          *)
(***************************************************************************)
RECURSIVE Join(_)
\* the string spelled by a sequence of characters
Join(cs) == IF cs = <<>> THEN "" ELSE Head(cs) \o Join(Tail(cs))

DecDigits == <<"0", "1", "2", "3", "4", "5", "6", "7", "8", "9">>

RECURSIVE NatToChars(_)
NatToChars(n) ==
  IF n < 10 THEN <<DecDigits[n + 1]>>
  ELSE NatToChars(n \div 10) \o <<DecDigits[(n % 10) + 1]>>

\* Number.prototype.toString / `${n}` for an integer
NumToChars(n) == IF n < 0 THEN <<"-">> \o NatToChars(-n) ELSE NatToChars(n)

DigitVal(c) ==
  IF \E i \in 1..10 : DecDigits[i] = c
  THEN (CHOOSE i \in 1..10 : DecDigits[i] = c) - 1
  ELSE -1

\* a number as parseInt returns it: NaN, or an integer
NaN == [nan |-> TRUE, value |-> 0]
Num(n) == [nan |-> FALSE, value |-> n]

RECURSIVE ParseDigits(_, _, _)
\* value of the longest prefix of decimal digits of cs, NaN when it is empty
ParseDigits(cs, acc, seen) ==
  IF cs = <<>> \/ DigitVal(Head(cs)) < 0
  THEN (IF seen THEN Num(acc) ELSE NaN)
  ELSE ParseDigits(Tail(cs), 10 * acc + DigitVal(Head(cs)), TRUE)

RECURSIVE SkipSpaces(_)
SkipSpaces(cs) == IF cs # <<>> /\ Head(cs) = " " THEN SkipSpaces(Tail(cs)) ELSE cs

\* parseInt(s, 10): leading blanks, an optional sign, then the digit prefix
ParseInt(s) ==
  LET cs == SkipSpaces(s) IN
  IF cs # <<>> /\ Head(cs) \in {"-", "+"}
  THEN LET v == ParseDigits(Tail(cs), 0, FALSE) IN
       IF v.nan THEN NaN ELSE IF Head(cs) = "-" THEN Num(0 - v.value) ELSE v
  ELSE ParseDigits(cs, 0, FALSE)

\* String.prototype.startsWith
StartsWith(s, p) == Len(s) >= Len(p) /\ SubSeq(s, 1, Len(p)) = p

(***************************************************************************)
(* Hex encoding (digest("hex")) and decoding (Buffer.from(s, "hex"))       *)
(***************************************************************************)
HexLower == <<"0", "1", "2", "3", "4", "5", "6", "7", "8", "9",
              "a", "b", "c", "d", "e", "f">>
HexUpper == <<"0", "1", "2", "3", "4", "5", "6", "7", "8", "9",
              "A", "B", "C", "D", "E", "F">>

\* value of a hex digit of either case, -1 for any other character
HexVal(c) ==
  IF \E i \in 1..16 : HexLower[i] = c THEN (CHOOSE i \in 1..16 : HexLower[i] = c) - 1
  ELSE IF \E i \in 1..16 : HexUpper[i] = c THEN (CHOOSE i \in 1..16 : HexUpper[i] = c) - 1
  ELSE -1

RECURSIVE HexDecode(_)
\* Buffer.from(s, "hex"): whole pairs of hex digits, truncated at the first
\* pair holding a character that is no hex digit; an odd last digit is dropped
HexDecode(s) ==
  IF Len(s) < 2 THEN <<>>
  ELSE IF HexVal(s[1]) < 0 \/ HexVal(s[2]) < 0 THEN <<>>
  ELSE <<16 * HexVal(s[1]) + HexVal(s[2])>> \o HexDecode(SubSeq(s, 3, Len(s)))

RECURSIVE HexEncode(_)
\* digest("hex"): two lower-case digits a byte
HexEncode(bs) ==
  IF bs = <<>> THEN <<>>
  ELSE <<HexLower[(Head(bs) \div 16) + 1], HexLower[(Head(bs) % 16) + 1]>>
       \o HexEncode(Tail(bs))

RECURSIVE Pow(_, _)
Pow(b, e) == IF e = 0 THEN 1 ELSE b * Pow(b, e - 1)

RECURSIVE ToBytes(_, _)
\* big-endian bytes of n, k bytes wide
ToBytes(n, k) ==
  IF k = 0 THEN <<>> ELSE ToBytes(n \div 256, k - 1) \o <<n % 256>>

(***************************************************************************)
(* utils/signature                                                         *)
(***************************************************************************)
\* the string that is signed: `fileId=${fileId}&expires=${expires}` and, for
\* a truthy ipAddress, `&ip=${ipAddress}`
StringToSign(fileId, expires, ipAddress) ==
  "fileId=" \o Join(fileId) \o "&expires=" \o Join(NumToChars(expires))
    \o (IF ipAddress # NoIp THEN "&ip=" \o ipAddress ELSE "")

\* expiry values that reach the codec: those it issues, and those a request
\* can carry in their place
ExpiresDomain ==
  { t + SIGNATURE_EXPIRY_MS + d : t \in ClockValues, d \in {0, 1} } \cup {0}

SignDomain ==
  { StringToSign(f, e, ip) : f \in FileIds, e \in ExpiresDomain, ip \in IPs }

\* a number for every message of the model: the rank of the first
\* (fileId, expires, ip) that spells it
SignRank(f, e, ip) ==
  LET fi == CHOOSE i \in 1..Len(FileIdSeq) : FileIdSeq[i] = f
      ei == Cardinality({ x \in ExpiresDomain : x < e })
      ii == CHOOSE i \in 1..Len(IpSeq) : IpSeq[i] = ip
  IN ((fi - 1) * Cardinality(ExpiresDomain) + ei) * Len(IpSeq) + ii

SignCode ==
  [ msg \in SignDomain |->
      LET tr == CHOOSE tr \in FileIds \X ExpiresDomain \X IPs :
                  StringToSign(tr[1], tr[2], tr[3]) = msg
      IN SignRank(tr[1], tr[2], tr[3]) ]

\* crypto.createHmac("sha256", SECRET_KEY).update(msg).digest("hex") as an
\* ideal keyed hash: a function of the message alone, without collisions on
\* the messages of the model (multiplication by an odd number is a bijection
\* modulo a power of two)
Hmac(msg) ==
  HexEncode(ToBytes((SignCode[msg] * 40503) % Pow(256, DigestBytes), DigestBytes))

\* generateSignedUrl(fileId, ipAddress) at clock value clock
generateSignedUrl(fileId, ipAddress, clock) ==
  LET expires == clock + SIGNATURE_EXPIRY_MS
  IN [expires |-> expires, signature |-> Hmac(StringToSign(fileId, expires, ipAddress))]

\* outcome of a call: a returned value, or an exception
Ret(v) == [threw |-> FALSE, value |-> v]
Throw == [threw |-> TRUE, value |-> FALSE]

\* crypto.timingSafeEqual(a, b): a RangeError for buffers of different length
timingSafeEqual(a, b) == IF Len(a) # Len(b) THEN Throw ELSE Ret(a = b)

\* validateSignedUrl rejecting a token in its last valid millisecond
validateSignedUrlGe(fileId, expires, signature, ipAddress, clock) ==
  IF clock >= expires THEN Ret(FALSE)
  ELSE LET cmp == timingSafeEqual(HexDecode(signature),
                    HexDecode(Hmac(StringToSign(fileId, expires, ipAddress))))
       IN IF cmp.threw THEN Ret(FALSE) ELSE Ret(cmp.value)

\* validateSignedUrl without the try/catch around the comparison
validateSignedUrlNoCatch(fileId, expires, signature, ipAddress, clock) ==
  IF clock > expires THEN Ret(FALSE)
  ELSE timingSafeEqual(HexDecode(signature),
                       HexDecode(Hmac(StringToSign(fileId, expires, ipAddress))))

\* validateSignedUrl(fileId, expires, signature, ipAddress) at clock value clock
validateSignedUrl(fileId, expires, signature, ipAddress, clock) ==
  IF clock > expires THEN Ret(FALSE)
  ELSE LET expectedSignature == Hmac(StringToSign(fileId, expires, ipAddress))
           cmp == timingSafeEqual(HexDecode(signature), HexDecode(expectedSignature))
       IN IF cmp.threw THEN Ret(FALSE) ELSE Ret(cmp.value)

(***************************************************************************)
(* State                                                                   *)
(***************************************************************************)
VARIABLES
  now,           \* Date.now()
  isProduction,  \* process.env.NODE_ENV === "production"
  botToken,      \* a bot token is configured (BOT_TOKEN / config.telegram.botToken)
  files,         \* table UploadFile: record id -> fileSize, Absent without a row
  downloads,     \* table Download: record id -> number of rows for that file
  token,         \* the signed token under observation, None before it is issued
  vcall,         \* the validateSignedUrl call made at the current clock value
                 \* and its outcome, or None
  link,          \* the link built by createSignedRedirectUrl, None before
  rresp,         \* the /download/redirect request handled at the current clock
                 \* value and its response, or None
  dresp,         \* the last plain download request and its response, or None
  initialized,   \* TelegramMTProtoService.initialized
  authStatus,    \* TelegramMTProtoService.authStatus
  uploads,       \* the uploadLargeFile calls: slot -> state of the call
  started,       \* startServer has awaited mtprotoService.init()
  authCalls,     \* the sendAuthCode / signIn calls: slot -> state of the call
  dispatched,    \* number of codes the backend dispatched so far; the
                 \* phone_code_hash of the k-th dispatch is k
  users,         \* table User: telegramId -> row
  bresp,         \* the update the bot has just handled and its outcome, None
                 \* once the handler has returned
  adminApiKey,   \* config.security.adminApiKey
  aresp,         \* the last /admin request and its response, or None
  del,           \* the DELETE /admin/files/:id request in progress
  workerAuth,    \* worker process -> authStatus of its TelegramMTProtoService
  wresp          \* the last handshake call a worker handled, or None

cfgVars == <<isProduction, botToken>>
dbVars == <<files, downloads>>
codecVars == <<token, vcall>>
redirectVars == <<link, rresp>>
authVars == <<started, authCalls, dispatched>>
mtprotoVars == <<initialized, authStatus, uploads, authVars>>
botVars == <<users, bresp>>
adminVars == <<adminApiKey, aresp, del>>
clusterVars == <<workerAuth, wresp>>
svcVars == <<botVars, adminVars, clusterVars>>
vars == <<now, cfgVars, svcVars, dbVars, codecVars, redirectVars, dresp, mtprotoVars>>

None == [none |-> TRUE]

Absent == -1

\* routes/download streamFile: MAX_BOT_DOWNLOAD_SIZE = 20 * 1024 * 1024
MAX_BOT_DOWNLOAD_SIZE == 20 * 1024 * 1024

Sessions == 1..MaxSessions

\* uuidv4() of the upload in slot s: distinct calls return distinct ids
Uuid(s) == <<"u", DecDigits[s + 1]>>

\* uuidv4() of the b-th row a bot handler creates
BotUuid(b) == <<"b", DecDigits[b + 1]>>

\* rows of table UploadFile when the process starts
SeedIds == { <<"f", "1">>, <<"f", "2">>, <<"f", "3">> }

\* ids of rows of table UploadFile
RecordIds ==
  SeedIds \cup { Uuid(s) : s \in Sessions } \cup { BotUuid(b) : b \in 1..MaxBotUploads }

NotCommitted == -1

\* an uploadLargeFile call that was not made yet
IdleUpload ==
  [pc |-> "idle", fileSize |-> 0, totalParts |-> 0, mtprotoFileId |-> 0,
   i |-> 0, parts |-> <<>>, acked |-> {}, commitParts |-> NotCommitted,
   error |-> "none", cause |-> "none"]

\* Telegram accounts that write to the bot
TelegramIds == {"admin", "alice", "bob", "carol"}

\* no row of table User
NoUser == [exists |-> FALSE, canUpload |-> FALSE, isAdmin |-> FALSE]

\* a row of table User
UserRow(canUpload, isAdmin) ==
  [exists |-> TRUE, canUpload |-> canUpload, isAdmin |-> isAdmin]

\* values of ADMIN_API_KEY: unset (the default "") or set
AdminApiKeys == {"", "k1"}

\* no DELETE /admin/files/:id request is in progress
IdleDelete == [pc |-> "idle", id |-> <<>>, header |-> "", deletedDownloads |-> 0]

Workers == 1..MaxWorkers

AuthCallers == 1..MaxAuthCalls

\* authStatus.phoneCodeHash is undefined
NoHash == 0

\* { authorized: false }, the AuthStatus a new service holds
Unauthorized ==
  [authorized |-> FALSE, user |-> "none", phoneCodeHash |-> NoHash,
   phoneCodeRequired |-> FALSE]

\* a sendAuthCode / signIn call that was not made, or whose caller took the
\* outcome
IdleCall ==
  [op |-> "none", pc |-> "idle", hash |-> NoHash, latest |-> NoHash,
   wasAuthorized |-> FALSE, backendCalls |-> 0, answer |-> "none",
   error |-> "none"]

Init ==
  /\ now = 0
  /\ isProduction \in BOOLEAN
  /\ botToken \in BOOLEAN
  /\ files = [ id \in RecordIds |->
                IF id = <<"f", "1">> THEN MAX_BOT_DOWNLOAD_SIZE
                ELSE IF id = <<"f", "2">> THEN MAX_BOT_DOWNLOAD_SIZE + 1
                ELSE IF id = <<"f", "3">> THEN 1024
                ELSE Absent ]
  /\ downloads = [ id \in RecordIds |-> 0 ]
  /\ token = None
  /\ vcall = None
  /\ link = None
  /\ rresp = None
  /\ dresp = None
  /\ initialized = FALSE
  /\ authStatus = Unauthorized
  /\ uploads = [ s \in Sessions |-> IdleUpload ]
  /\ started = FALSE
  /\ authCalls = [ c \in AuthCallers |-> IdleCall ]
  /\ dispatched = 0
  /\ users = [ id \in TelegramIds |->
                IF id = "admin" THEN UserRow(FALSE, TRUE)
                ELSE IF id = "alice" THEN UserRow(TRUE, FALSE)
                ELSE IF id = "bob" THEN UserRow(FALSE, FALSE)
                ELSE NoUser ]
  /\ bresp = None
  /\ adminApiKey \in AdminApiKeys
  /\ aresp = None
  /\ del = IdleDelete
  /\ workerAuth = [ w \in Workers |-> Unauthorized ]
  /\ wresp = None

\* the clock only moves forward
Tick ==
  /\ \E t \in ClockValues : t > now /\ now' = t
  /\ vcall' = None
  /\ rresp' = None
  /\ UNCHANGED <<cfgVars, svcVars, dbVars, token, link, dresp, mtprotoVars>>

(***************************************************************************)
(* The codec called directly                                               *)
(***************************************************************************)
\* characters a signature character is replaced by
TamperChars ==
  { HexLower[i] : i \in 1..16 } \cup { HexUpper[i] : i \in 1..16 } \cup {"g"}

\* s with the character at position p replaced by c
ReplaceAt(s, p, c) == [s EXCEPT ![p] = c]

SingleCharTampers(s) ==
  { ReplaceAt(s, p, c) : p \in 1..Len(s), c \in TamperChars } \ {s}

\* s cut short or extended
LengthTampers(s) ==
  { SubSeq(s, 1, n) : n \in 0..(Len(s) - 1) } \cup { s \o <<"0">>, s \o <<"0", "0">> }

\* generateSignedUrl(fileId, ipAddress)
Generate(fileId, ipAddress) ==
  /\ token = None
  /\ LET t == generateSignedUrl(fileId, ipAddress, now)
     IN token' = [fileId |-> fileId, ip |-> ipAddress, issuedAt |-> now,
                  expires |-> t.expires, signature |-> t.signature]
  /\ UNCHANGED <<now, cfgVars, svcVars, dbVars, vcall, redirectVars, dresp, mtprotoVars>>

\* validateSignedUrl(fileId, expires, signature, ipAddress)
Validate(fileId, expires, signature, ipAddress) ==
  /\ vcall = None
  /\ vcall' = [fileId |-> fileId, expires |-> expires, signature |-> signature,
               ip |-> ipAddress,
               out |-> validateSignedUrl(fileId, expires, signature, ipAddress, now)]
  /\ UNCHANGED <<now, cfgVars, svcVars, dbVars, token, redirectVars, dresp, mtprotoVars>>

\* the issued token presented as issued, or with one of its parts changed
ValidateIssued ==
  /\ token # None
  /\ vcall = None
  /\ \/ Validate(token.fileId, token.expires, token.signature, token.ip)
     \/ \E f \in FileIds \ {token.fileId} :
          Validate(f, token.expires, token.signature, token.ip)
     \/ \E e \in {token.expires + 1, 0} :
          Validate(token.fileId, e, token.signature, token.ip)
     \/ \E s \in SingleCharTampers(token.signature) \cup LengthTampers(token.signature) :
          Validate(token.fileId, token.expires, s, token.ip)
     \/ \E ip \in IPs \ {token.ip} :
          Validate(token.fileId, token.expires, token.signature, ip)

NextCodec ==
  \/ Tick
  \/ \E f \in FileIds, ip \in IPs : Generate(f, ip)
  \/ ValidateIssued

\* the codec reads neither isProduction nor botToken
InitCodec == Init /\ isProduction = FALSE /\ botToken = TRUE /\ adminApiKey = ""

SpecCodec == InitCodec /\ [][NextCodec]_vars

(***************************************************************************)
(* routes/download: GET /download/redirect/:fileId (handleRedirect)        *)
(***************************************************************************)
\* createSignedRedirectUrl(baseUrl, fileId): the path parameter and the two
\* query parameters of the URL it returns
createSignedRedirectUrl(fileId, clock) ==
  LET t == generateSignedUrl(fileId, NoIp, clock)
  IN [fileId |-> fileId, expires |-> NumToChars(t.expires), signature |-> t.signature]

\* fileId.startsWith("BQA") || fileId.startsWith("AAD")
IsDirectHandleNoCQA(fileId) ==
  \/ StartsWith(fileId, <<"B", "Q", "A">>)
  \/ StartsWith(fileId, <<"A", "A", "D">>)

\* fileId.startsWith("BQA") || fileId.startsWith("AAD") || fileId.startsWith("CQA")
IsDirectHandle(fileId) ==
  \/ StartsWith(fileId, <<"B", "Q", "A">>)
  \/ StartsWith(fileId, <<"A", "A", "D">>)
  \/ StartsWith(fileId, <<"C", "Q", "A">>)

\* a response of handleRedirect:
\*   kind         "text" (res.status(n).send), "cdn" (redirect to the Telegram
\*                file URL), "stream" (redirect to /download/:id/stream, the
\*                endpoint that pipes the bytes through the server)
\*   sigChecked   validateSignedUrl was called
\*   dbLookups    calls of prisma.uploadFile.findUnique
\*   getFileCalls calls of the Bot API getFile
Resp(status, kind, sigChecked, dbLookups, getFileCalls) ==
  [status |-> status, kind |-> kind, sigChecked |-> sigChecked,
   dbLookups |-> dbLookups, getFileCalls |-> getFileCalls]

\* answers of the Bot API getFile call: ok with a file_path, not ok or without
\* a file_path, or the call throws
GetFileAnswers == {"ok", "notOk", "throw"}

\* the direct-handle branch
DirectHandleFlow(ans) ==
  IF ~botToken THEN Resp(500, "text", FALSE, 0, 0)
  ELSE IF ans = "ok" THEN Resp(302, "cdn", FALSE, 0, 1)
  ELSE IF ans = "notOk" THEN Resp(404, "text", FALSE, 0, 1)
  ELSE Resp(500, "text", FALSE, 0, 1)

\* from the database lookup on
ResolveRecord(req, ans) ==
  IF req.fileId \notin RecordIds \/ files[req.fileId] = Absent
  THEN Resp(404, "text", TRUE, 1, 0)
  ELSE IF ~botToken THEN Resp(500, "text", TRUE, 1, 0)
  ELSE IF ans = "ok" THEN Resp(302, "cdn", TRUE, 1, 1)
  ELSE IF ans = "notOk" THEN Resp(302, "stream", TRUE, 1, 1)
  ELSE Resp(500, "text", TRUE, 1, 1)

\* isProduction ? req.ip || "" : undefined
ClientIp(req) == IF isProduction THEN req.ip ELSE NoIp

\* the signed branch with the record resolved whatever the signature
SignedFlowNoReject(req, ans) ==
  IF req.expires = <<>> \/ req.signature = <<>> THEN Resp(400, "text", FALSE, 0, 0)
  ELSE IF ParseInt(req.expires).nan THEN Resp(400, "text", FALSE, 0, 0)
  ELSE ResolveRecord(req, ans)

\* the signed branch ("Regular flow with signature validation")
SignedFlow(req, ans) ==
  IF req.expires = <<>> \/ req.signature = <<>> THEN Resp(400, "text", FALSE, 0, 0)
  ELSE LET expiresNum == ParseInt(req.expires) IN
    IF expiresNum.nan THEN Resp(400, "text", FALSE, 0, 0)
    ELSE LET isValid == validateSignedUrl(req.fileId, expiresNum.value, req.signature,
                                          ClientIp(req), now) IN
      IF isValid.threw THEN Resp(500, "text", TRUE, 0, 0)
      ELSE IF ~isValid.value THEN Resp(403, "text", TRUE, 0, 0)
      ELSE ResolveRecord(req, ans)

\* handleRedirect for the request req when getFile, if called, answers ans
handleRedirect(req, ans) ==
  IF req.fileId = <<>> THEN Resp(400, "text", FALSE, 0, 0)
  ELSE IF IsDirectHandle(req.fileId) THEN DirectHandleFlow(ans)
  ELSE SignedFlow(req, ans)

\* createSignedRedirectUrl(baseUrl, fileId)
CreateLink(fileId) ==
  /\ link = None
  /\ link' = createSignedRedirectUrl(fileId, now) @@ [issuedAt |-> now]
  /\ UNCHANGED <<now, cfgVars, svcVars, dbVars, codecVars, rresp, dresp, mtprotoVars>>

\* values of the expires parameter that replace the one of the link
ExpiresTampers(e) ==
  { NumToChars(ParseInt(e).value + 1), <<"0">>, <<"a", "b", "c">>, <<>>,
    e \o <<"x">>, <<" ">> \o e }

\* requests to the entry point: the link as built, or with one part changed
LinkRequests ==
  { [fileId |-> link.fileId, expires |-> link.expires, signature |-> link.signature] }
  \cup { [fileId |-> f, expires |-> link.expires, signature |-> link.signature] :
         f \in FileIds }
  \cup { [fileId |-> link.fileId, expires |-> e, signature |-> link.signature] :
         e \in ExpiresTampers(link.expires) }
  \cup { [fileId |-> link.fileId, expires |-> link.expires, signature |-> s] :
         s \in SingleCharTampers(link.signature) \cup LengthTampers(link.signature) }

\* requests that owe nothing to a link
PlainRequests ==
  { [fileId |-> f, expires |-> e, signature |-> s] :
      f \in FileIds,
      e \in { <<>>, <<"0">> },
      s \in { <<>>, <<"0", "0">> } }

\* GET /download/redirect/:fileId?expires=..&signature=..
HandleRedirect(r, ip, ans) ==
  /\ rresp = None
  /\ LET req == r @@ [ip |-> ip]
         res == handleRedirect(req, ans)
     IN rresp' = [req |-> req, res |-> res,
                  getFile |-> IF res.getFileCalls > 0 THEN ans ELSE "none"]
  /\ UNCHANGED <<now, cfgVars, svcVars, dbVars, codecVars, link, dresp, mtprotoVars>>

\* the file ids links are built for: two rows, an id without a row, a handle
LinkFileIds == { <<"f", "1">>, <<"f", "2">>, <<"b", "q", "a", "x">>, <<"B", "Q", "A", "x">> }

\* a request arrives
Redirect ==
  /\ rresp = None
  /\ \E r \in (IF link = None THEN PlainRequests ELSE PlainRequests \cup LinkRequests),
        ip \in IPs, ans \in GetFileAnswers : HandleRedirect(r, ip, ans)

NextRedirect ==
  \/ Tick
  \/ \E f \in LinkFileIds : CreateLink(f)
  \/ Redirect

\* the redirect path does not read the admin key
InitRedirect == Init /\ adminApiKey = ""

SpecRedirect == InitRedirect /\ [][NextRedirect]_vars

(***************************************************************************)
(* routes/download: GET /download/:id and /download/:id/stream (streamFile)*)
(***************************************************************************)
\* sub occurs in s (Prisma `contains`)
Contains(s, sub) ==
  \E k \in 0..(Len(s) - Len(sub)) : SubSeq(s, k + 1, k + Len(sub)) = sub

\* publicUrl of a row: `${this.publicUrl}/download/${id}`; "h" stands for the
\* configured base URL
PublicUrlOf(id) ==
  <<"h", "/", "d", "o", "w", "n", "l", "o", "a", "d", "/">> \o id

\* rows findUnique({id}) or else findFirst({publicUrl: {contains: id}}) can return
LookupFile(id) ==
  IF id \in RecordIds /\ files[id] # Absent THEN {id}
  ELSE { rid \in RecordIds : files[rid] # Absent /\ Contains(PublicUrlOf(rid), id) }

\* file.fileSize >= MAX_BOT_DOWNLOAD_SIZE
IsLargeFileGe(fileSize) == fileSize >= MAX_BOT_DOWNLOAD_SIZE

\* file.fileSize > MAX_BOT_DOWNLOAD_SIZE
IsLargeFile(fileSize) == fileSize > MAX_BOT_DOWNLOAD_SIZE

NoFile == <<>>

\* a response of streamFile:
\*   kind        "inline" (the bytes piped through the server), "manual" (the
\*               page telling how to fetch the file in Telegram), "text"
\*   branch      "large" / "small": the side of the size check that ran
\*   getFile     the answer of the Bot API getFile call, "none" without a call
\*   byteFetches requests for the bytes of the file
DResp(status, kind, branch, getFile, byteFetches) ==
  [status |-> status, kind |-> kind, branch |-> branch,
   getFile |-> getFile, byteFetches |-> byteFetches]

\* "For large files, use the direct download URL approach"
LargeFileResponse(headersOk) ==
  IF ~botToken THEN DResp(500, "text", "large", "none", 0)
  ELSE IF headersOk THEN DResp(200, "manual", "large", "none", 0)
  ELSE DResp(500, "text", "large", "none", 0)

\* "For small files, continue with direct Bot API download"
SmallFileResponse(ans, fetchOk, headersOk) ==
  IF ~botToken THEN DResp(500, "text", "small", "none", 0)
  ELSE IF ans = "throw" THEN DResp(500, "text", "small", ans, 0)
  ELSE IF ans = "notOk" THEN DResp(404, "text", "small", ans, 0)
  ELSE IF ~fetchOk THEN DResp(500, "text", "small", ans, 1)
  ELSE IF ~headersOk THEN DResp(500, "text", "small", ans, 1)
  ELSE DResp(200, "inline", "small", ans, 1)

\* streamFile from the size check on, for a row of size fileSize
streamFileFound(fileSize, ans, fetchOk, headersOk) ==
  IF IsLargeFile(fileSize) THEN LargeFileResponse(headersOk)
  ELSE SmallFileResponse(ans, fetchOk, headersOk)

\* logDownload(file.id, req): a row of table Download, unless the insert fails
logDownload(rid, logOk) ==
  IF logOk THEN [downloads EXCEPT ![rid] = @ + 1] ELSE downloads

\* ids requested on the plain download path: route parameters, and parts of a
\* public URL
DownloadIds ==
  { <<"f", "1">>, <<"f", "2">>, <<"f", "3">>, <<"f", "4">>, <<"B", "Q", "A", "x">>,
    <<"f">>, <<"d", "/", "f", "1">> }

\* GET /download/:id (downloadFile calls streamFile) and GET /download/:id/stream
StreamFile(id, dbOk, logOk, ans, fetchOk, headersOk) ==
  IF ~dbOk
  THEN /\ dresp' = [id |-> id, file |-> NoFile, fileSize |-> 0,
                    res |-> DResp(500, "text", "none", "none", 0)]
       /\ UNCHANGED <<now, cfgVars, svcVars, dbVars, codecVars, redirectVars, mtprotoVars>>
  ELSE IF LookupFile(id) = {}
  THEN /\ dresp' = [id |-> id, file |-> NoFile, fileSize |-> 0,
                    res |-> DResp(404, "text", "none", "none", 0)]
       /\ UNCHANGED <<now, cfgVars, svcVars, dbVars, codecVars, redirectVars, mtprotoVars>>
  ELSE \E rid \in LookupFile(id) :
       /\ logOk => downloads[rid] < MaxDownloads
       /\ downloads' = logDownload(rid, logOk)
       /\ dresp' = [id |-> id, file |-> rid, fileSize |-> files[rid],
                    res |-> streamFileFound(files[rid], ans, fetchOk, headersOk)]
       /\ UNCHANGED <<now, cfgVars, svcVars, files, codecVars, redirectVars, mtprotoVars>>

NextDownload ==
  \E id \in DownloadIds, dbOk \in BOOLEAN, logOk \in BOOLEAN,
     ans \in GetFileAnswers, fetchOk \in BOOLEAN, headersOk \in BOOLEAN :
    StreamFile(id, dbOk, logOk, ans, fetchOk, headersOk)

\* the plain download path does not read isProduction
InitDownload == Init /\ isProduction = FALSE /\ adminApiKey = ""

SpecDownload == InitDownload /\ [][NextDownload]_vars

(***************************************************************************)
(* services/mtproto: init and uploadLargeFile                              *)
(***************************************************************************)
partSize == 512 * 1024

\* Buffer lengths of the files uploaded: no, one and three parts
FileSizes == { 0, partSize, 2 * partSize + 1 }

\* Math.floor(fileSize / partSize)
TotalPartsFloor(fileSize) == fileSize \div partSize

\* Math.ceil(fileSize / partSize)
TotalParts(fileSize) == (fileSize + partSize - 1) \div partSize

\* Math.min(a, b) replaced by its first argument
MinFirst(a, b) == a

\* Math.min(a, b)
Min(a, b) == IF a < b THEN a ELSE b

\* the loop `for (let i = 0; i < totalParts - 1; i++)` is left
LoopDoneOffByOne(i, totalParts) == ~(i < totalParts - 1)

\* the loop `for (let i = 0; i < totalParts; i++)` is left
LoopDone(i, totalParts) == ~(i < totalParts)

\* the loop's `i++` replaced by `i += 2`
NextPartSkip(i) == i + 2

\* the loop's `i++`
NextPart(i) == i + 1

\* the gate `if (!this.initialized)` removed
NotInitializedOff == FALSE

\* the gate of uploadLargeFile: `if (!this.initialized)`
NotInitialized == ~initialized

\* init opens the gate whatever checkAuth answered
AlreadyAuthorizedAlways(status) == TRUE

\* init: `if (authStatus.authorized)`, the condition of `this.initialized = true`
AlreadyAuthorized(status) == status.authorized

\* init(), awaited once by startServer before the routes and the bot get the
\* service: checkAuth() asks users.getFullUser; found is whether it answered
MtprotoInit(found) ==
  /\ ~started
  /\ started' = TRUE
  /\ authStatus' = IF found THEN [Unauthorized EXCEPT !.authorized = TRUE, !.user = "self"]
                   ELSE Unauthorized
  /\ initialized' = IF AlreadyAuthorized(authStatus') THEN TRUE ELSE initialized
  /\ UNCHANGED <<now, cfgVars, svcVars, dbVars, codecVars, redirectVars, dresp, uploads,
                 authCalls, dispatched>>

\* uploadLargeFile(fileBuffer, ..) is called: the gate, then the part count
\* and the numeric upload id
StartUpload(s, fileSize, mid) ==
  /\ started
  /\ uploads[s].pc = "idle"
  /\ uploads' = [uploads EXCEPT ![s] =
       IF NotInitialized
       THEN [@ EXCEPT !.pc = "failed", !.error = "AuthRequired"]
       ELSE [@ EXCEPT !.pc = IF LoopDone(0, TotalParts(fileSize)) THEN "commit" ELSE "parts",
                      !.fileSize = fileSize,
                      !.totalParts = TotalParts(fileSize),
                      !.mtprotoFileId = mid]]
  /\ UNCHANGED <<now, cfgVars, svcVars, dbVars, codecVars, redirectVars, dresp,
                 initialized, authStatus, authVars>>

\* answers of upload.saveFilePart: acknowledged, rejected, or rejected
\* because the backend no longer knows the session
SaveFilePartAnswers == {"ok", "error", "AUTH_KEY_UNREGISTERED"}

\* the catch around upload.saveFilePart swallows the error and the part is
\* sent again
PartFailedRetry(u, call, cause) ==
  [u EXCEPT !.parts = Append(@, call), !.error = "PartFailed", !.cause = cause]

\* the catch around upload.saveFilePart: `throw new Error("Failed to upload
\* part ..")`, rethrown by the outer catch as "Failed to upload file: .."
PartFailed(u, call, cause) ==
  [u EXCEPT !.parts = Append(@, call), !.pc = "failed",
            !.error = "PartFailed", !.cause = cause]

\* one turn of the loop: upload.saveFilePart for part i and the answer to it
SaveFilePart(s, ans) ==
  /\ uploads[s].pc = "parts"
  /\ LET u == uploads[s]
         start == u.i * partSize
         end == Min(start + partSize, u.fileSize)
         call == [file_id |-> u.mtprotoFileId, file_part |-> u.i,
                  start |-> start, end |-> end]
     IN uploads' = [uploads EXCEPT ![s] =
          IF ans = "ok"
          THEN [@ EXCEPT !.parts = Append(@, call),
                         !.acked = @ \cup {u.i},
                         !.i = NextPart(u.i),
                         !.pc = IF LoopDone(NextPart(u.i), u.totalParts)
                                THEN "commit" ELSE "parts"]
          ELSE PartFailed(u, call, ans)]
  /\ UNCHANGED <<now, cfgVars, svcVars, dbVars, codecVars, redirectVars, dresp,
                 initialized, authStatus, authVars>>

\* answers of messages.sendMedia: updates holding a document, updates without
\* one, or the call is rejected
SendMediaAnswers == {"document", "noDocument", "rejected"}

\* `if (!document)` never throws
HasDocumentAlways(ans) == ans # "rejected"

\* the loop over result.updates found a document
HasDocument(ans) == ans = "document"

\* messages.sendMedia with parts = totalParts, then the row of table UploadFile
SendMedia(s, ans, dbOk) ==
  /\ uploads[s].pc = "commit"
  /\ LET u == uploads[s] IN
     IF HasDocument(ans) /\ dbOk
     THEN /\ uploads' = [uploads EXCEPT ![s] =
                 [@ EXCEPT !.commitParts = u.totalParts, !.pc = "done",
                           !.cause = ans]]
          /\ files' = [files EXCEPT ![Uuid(s)] = u.fileSize]
     ELSE /\ uploads' = [uploads EXCEPT ![s] =
                 [@ EXCEPT !.commitParts = u.totalParts, !.pc = "failed",
                           !.cause = ans,
                           !.error = IF HasDocument(ans) THEN "DatabaseError"
                                     ELSE IF ans = "noDocument" THEN "NoDocument"
                                     ELSE "Rejected"]]
          /\ UNCHANGED files
  /\ UNCHANGED <<now, cfgVars, svcVars, downloads, codecVars, redirectVars, dresp,
                 initialized, authStatus, authVars>>

NextUpload ==
  \/ \E found \in BOOLEAN : MtprotoInit(found)
  \/ \E s \in Sessions, fileSize \in FileSizes, mid \in 1..MaxUploadIds :
       StartUpload(s, fileSize, mid)
  \/ \E s \in Sessions, ans \in SaveFilePartAnswers : SaveFilePart(s, ans)
  \/ \E s \in Sessions, ans \in SendMediaAnswers, dbOk \in BOOLEAN : SendMedia(s, ans, dbOk)

\* uploadLargeFile reads neither isProduction nor the bot token
InitUpload == Init /\ isProduction = FALSE /\ botToken = TRUE /\ adminApiKey = ""

SpecUpload == InitUpload /\ [][NextUpload]_vars

\* Buffer lengths around every multiple of the part size up to MaxParts
\* parts, and the 10,000,000 byte file
ChunkFileSizes ==
  { n \in { k * partSize + d : k \in 0..MaxParts, d \in {-1, 0, 1} } : n >= 0 }
    \cup { 10000000 }

\* one uploadLargeFile call at a time, over the file sizes of the chunk math
NextChunk ==
  \/ \E found \in BOOLEAN : MtprotoInit(found)
  \/ \E fileSize \in ChunkFileSizes : StartUpload(1, fileSize, 1)
  \/ \E ans \in SaveFilePartAnswers : SaveFilePart(1, ans)
  \/ \E ans \in SendMediaAnswers, dbOk \in BOOLEAN : SendMedia(1, ans, dbOk)

InitChunk == Init /\ isProduction = FALSE /\ botToken = TRUE /\ adminApiKey = ""

SpecChunk == InitChunk /\ [][NextChunk]_vars

(***************************************************************************)
(* The handshake: sendAuthCode and signIn of TelegramMTProtoService.  Each *)
(* call is a sequence of steps separated by its awaits; calls in different *)
(* slots interleave at the awaits.                                         *)
(***************************************************************************)
\* sendAuthCode() is called: it runs up to `await this.getDetailedStatus()`
\* whatever the authStatus is
SendAuthCodeStart(c) ==
  /\ started
  /\ authCalls[c].op = "none"
  /\ authCalls' = [authCalls EXCEPT ![c] =
       [IdleCall EXCEPT !.op = "sendAuthCode", !.pc = "status",
                        !.wasAuthorized = authStatus.authorized]]
  /\ UNCHANGED <<now, cfgVars, svcVars, dbVars, codecVars, redirectVars, dresp,
                 initialized, authStatus, uploads, started, dispatched>>

\* mtproto.call("auth.sendCode") is made and the backend handles it: it
\* dispatches a code with a new phone_code_hash, or rejects the call
AuthSendCode(c, ok) ==
  /\ authCalls[c].op = "sendAuthCode"
  /\ authCalls[c].pc = "status"
  /\ IF ok
     THEN /\ dispatched < MaxDispatches
          /\ dispatched' = dispatched + 1
          /\ authCalls' = [authCalls EXCEPT ![c] =
               [@ EXCEPT !.pc = "answered", !.hash = dispatched + 1,
                         !.backendCalls = @ + 1]]
     ELSE /\ UNCHANGED dispatched
          /\ authCalls' = [authCalls EXCEPT ![c] =
               [@ EXCEPT !.pc = "rejected", !.backendCalls = @ + 1]]
  /\ UNCHANGED <<now, cfgVars, svcVars, dbVars, codecVars, redirectVars, dresp,
                 initialized, authStatus, uploads, started>>

\* sendAuthCode resumes after `await this.mtproto.call("auth.sendCode")`:
\* the spread of this.authStatus is evaluated now
SendAuthCodeResume(c) ==
  /\ authCalls[c].op = "sendAuthCode"
  /\ authCalls[c].pc \in {"answered", "rejected"}
  /\ IF authCalls[c].pc = "answered"
     THEN /\ authStatus' = [authStatus EXCEPT !.phoneCodeHash = authCalls[c].hash,
                                              !.phoneCodeRequired = TRUE]
          /\ authCalls' = [authCalls EXCEPT ![c] = [@ EXCEPT !.pc = "returned"]]
     ELSE /\ UNCHANGED authStatus
          /\ authCalls' = [authCalls EXCEPT ![c] =
               [@ EXCEPT !.pc = "threw", !.error = "SendCodeFailed"]]
  /\ UNCHANGED <<now, cfgVars, svcVars, dbVars, codecVars, redirectVars, dresp,
                 initialized, uploads, started, dispatched>>

\* the check `if (!this.authStatus.phoneCodeHash)` removed
NoPendingCodeOff == FALSE

\* signIn: `if (!this.authStatus.phoneCodeHash)`
NoPendingCode == authStatus.phoneCodeHash = NoHash

\* signIn(code) is called: the check of the stored hash, then
\* mtproto.call("auth.signIn") with the hash read from authStatus; latest is
\* the hash of the backend's most recent dispatch at that moment
SignInStart(c) ==
  /\ started
  /\ authCalls[c].op = "none"
  /\ authCalls' = [authCalls EXCEPT ![c] =
       IF NoPendingCode
       THEN [IdleCall EXCEPT !.op = "signIn", !.pc = "threw",
                             !.wasAuthorized = authStatus.authorized,
                             !.error = "NoPendingCode"]
       ELSE [IdleCall EXCEPT !.op = "signIn", !.pc = "signIn",
                             !.wasAuthorized = authStatus.authorized,
                             !.hash = authStatus.phoneCodeHash,
                             !.latest = dispatched,
                             !.backendCalls = 1]]
  /\ UNCHANGED <<now, cfgVars, svcVars, dbVars, codecVars, redirectVars, dresp,
                 initialized, authStatus, uploads, started, dispatched>>

\* answers of auth.signIn: an authorization with its user, an answer without
\* a user (auth.authorizationSignUpRequired), or an error_message
SignInAnswers == {"user", "noUser", "SESSION_PASSWORD_NEEDED", "PHONE_CODE_INVALID"}

\* the catch of signIn rethrows every error as it is
SignInErrorRethrow(ans) == ans

\* the catch of signIn: SESSION_PASSWORD_NEEDED becomes the "Two-factor
\* authentication is required but not supported" error, any other error is
\* rethrown
SignInError(ans) ==
  IF ans = "SESSION_PASSWORD_NEEDED" THEN "TwoFactorUnsupported" ELSE ans

\* signIn resumes after `await this.mtproto.call("auth.signIn")`
SignInResume(c, ans) ==
  /\ authCalls[c].op = "signIn"
  /\ authCalls[c].pc = "signIn"
  /\ IF ans \in {"user", "noUser"}
     THEN /\ authStatus' = [Unauthorized EXCEPT
                              !.authorized = TRUE,
                              !.user = IF ans = "user" THEN "self" ELSE "none"]
          /\ initialized' = TRUE
          /\ authCalls' = [authCalls EXCEPT ![c] =
               IF ans = "user"
               THEN [@ EXCEPT !.pc = "returned", !.answer = ans]
               ELSE [@ EXCEPT !.pc = "threw", !.answer = ans, !.error = "TypeError"]]
     ELSE /\ UNCHANGED <<authStatus, initialized>>
          /\ authCalls' = [authCalls EXCEPT ![c] =
               [@ EXCEPT !.pc = "threw", !.answer = ans, !.error = SignInError(ans)]]
  /\ UNCHANGED <<now, cfgVars, svcVars, dbVars, codecVars, redirectVars, dresp,
                 uploads, started, dispatched>>

\* the caller of a finished sendAuthCode / signIn took its outcome
Settle(c) ==
  /\ authCalls[c].pc \in {"returned", "threw"}
  /\ authCalls' = [authCalls EXCEPT ![c] = IdleCall]
  /\ UNCHANGED <<now, cfgVars, svcVars, dbVars, codecVars, redirectVars, dresp,
                 initialized, authStatus, uploads, started, dispatched>>

\* stop(), called by gracefulShutdown while requests may still be served
Stop ==
  /\ started
  /\ initialized' = FALSE
  /\ UNCHANGED <<now, cfgVars, svcVars, dbVars, codecVars, redirectVars, dresp,
                 authStatus, uploads, authVars>>

\* the handshake next to one uploadLargeFile call of a one-part file
NextAuth ==
  \/ \E found \in BOOLEAN : MtprotoInit(found)
  \/ \E c \in AuthCallers : SendAuthCodeStart(c)
  \/ \E c \in AuthCallers, ok \in BOOLEAN : AuthSendCode(c, ok)
  \/ \E c \in AuthCallers : SendAuthCodeResume(c)
  \/ \E c \in AuthCallers : SignInStart(c)
  \/ \E c \in AuthCallers, ans \in SignInAnswers : SignInResume(c, ans)
  \/ \E c \in AuthCallers : Settle(c)
  \/ Stop
  \/ StartUpload(1, partSize, 1)
  \/ \E ans \in SaveFilePartAnswers : SaveFilePart(1, ans)
  \/ \E ans \in SendMediaAnswers, dbOk \in BOOLEAN : SendMedia(1, ans, dbOk)

\* the handshake reads neither isProduction nor the bot token
InitAuth == Init /\ isProduction = FALSE /\ botToken = TRUE /\ adminApiKey = ""

SpecAuth == InitAuth /\ [][NextAuth]_vars

(***************************************************************************)
(* services/permission and the bot's handlers (services/telegram).  A      *)
(* handler is one step; env names the one call of the handler that fails,  *)
(* "ok" when none does.                                                    *)
(***************************************************************************)
\* config.telegram.fileSizeThresholds.bot
BOT_UPLOAD_LIMIT == 50 * 1024 * 1024

\* file_size of the files sent to the bot
BotFileSizes == { 1024, BOT_UPLOAD_LIMIT, BOT_UPLOAD_LIMIT + 1 }

\* the updates with an upload handler
UploadKinds == {"document", "photo", "video", "audio"}

\* the call of a handler that fails
BotEnvs == {"ok", "permissionLookup", "userLookup", "getFile", "sendDocument",
            "create", "update"}

\* canUpload without the permission test: every registered user may upload
CanUploadRegistered(row) == row.exists

\* PermissionService.canUpload: `!!user && (user.canUpload || user.isAdmin)`
CanUploadRow(row) == row.exists /\ (row.canUpload \/ row.isAdmin)

\* isAdmin without the admin test
IsAdminRegistered(row) == row.exists

\* PermissionService.isAdmin: `!!user && user.isAdmin`
IsAdminRow(row) == row.exists /\ row.isAdmin

\* the outcome of handling an update: forwarded counts the sendDocument calls
\* that reached the channel, largeCalls the mtprotoService.uploadLargeFile
\* calls, record is whether a row of UploadFile was created, success the
\* `success` of a permission change (of an upload: the link was sent)
BResp(kind, sender, target, size, env, forwarded, record, reply) ==
  [kind |-> kind, sender |-> sender, target |-> target, size |-> size,
   env |-> env, forwarded |-> forwarded, largeCalls |-> 0, record |-> record,
   success |-> record, reply |-> reply]

\* what a handler did: sendDocument calls that reached the channel, whether
\* the row was created, and the last reply to the sender
Outcome(forwarded, record, reply) ==
  [forwarded |-> forwarded, record |-> record, reply |-> reply]

\* processLargeFile: two replies asking for manual handling; it resolves
\* without calling mtprotoService.uploadLargeFile
processLargeFile == Outcome(0, FALSE, "manual")

\* sendDocument to the channel, prisma.uploadFile.create, the link
forwardAndRecord(env) ==
  IF env = "sendDocument" THEN Outcome(0, FALSE, "error")
  ELSE IF env = "create" THEN Outcome(1, FALSE, "error")
  ELSE Outcome(1, TRUE, "link")

\* processFile: the size check, getFile, then forward and record;
\* this.mtprotoService is set once startServer has awaited init()
processFile(size, env) ==
  IF size > BOT_UPLOAD_LIMIT
  THEN IF started THEN processLargeFile ELSE Outcome(0, FALSE, "error")
  ELSE IF env = "getFile" THEN Outcome(0, FALSE, "error")
  ELSE forwardAndRecord(env)

\* handleVideoUpload / handleAudioUpload from the size check on
videoOrAudio(size, env) ==
  IF size > BOT_UPLOAD_LIMIT
  THEN IF ~started THEN Outcome(0, FALSE, "notEnabled") ELSE processLargeFile
  ELSE processFile(size, env)

\* handleFileUpload / handlePhotoUpload / handleVideoUpload / handleAudioUpload
uploadOutcome(kind, sender, size, env) ==
  IF env = "permissionLookup" \/ ~CanUploadRow(users[sender])
  THEN Outcome(0, FALSE, "denied")
  ELSE IF env = "userLookup" THEN Outcome(0, FALSE, "error")
  ELSE IF ~users[sender].exists THEN Outcome(0, FALSE, "startFirst")
  ELSE IF kind = "document" THEN forwardAndRecord(env)
  ELSE IF kind = "photo" THEN processFile(size, env)
  ELSE videoOrAudio(size, env)

\* indices of the rows the bot handlers have not created yet
FreeBotRows == { b \in 1..MaxBotUploads : files[BotUuid(b)] = Absent }

\* an update with a document, photo, video or audio is handled
HandleUpload(kind, sender, size, env) ==
  LET out == uploadOutcome(kind, sender, size, env) IN
  /\ out.record => FreeBotRows # {}
  /\ files' = IF out.record
              THEN [files EXCEPT ![BotUuid(CHOOSE b \in FreeBotRows :
                                     \A c \in FreeBotRows : b <= c)] = size]
              ELSE files
  /\ bresp' = BResp(kind, sender, sender, size, env, out.forwarded, out.record,
                    out.reply)
  /\ UNCHANGED <<now, cfgVars, adminVars, clusterVars, downloads, codecVars,
                 redirectVars, dresp, mtprotoVars, users>>

\* grantUploadPermission / revokeUploadPermission: the reply and the row
\* written, if any
permissionChange(kind, target, caller, env) ==
  IF env = "permissionLookup" \/ ~IsAdminRow(users[caller])
  THEN [success |-> FALSE, reply |-> "notAdmin", users |-> users]
  ELSE IF env = "userLookup"
  THEN [success |-> FALSE, reply |-> "error", users |-> users]
  ELSE IF ~users[target].exists
  THEN [success |-> FALSE, reply |-> "notFound", users |-> users]
  ELSE IF kind = "revoke" /\ users[target].isAdmin
  THEN [success |-> FALSE, reply |-> "targetIsAdmin", users |-> users]
  ELSE IF env = "update"
  THEN [success |-> FALSE, reply |-> "error", users |-> users]
  ELSE [success |-> TRUE, reply |-> "done",
        users |-> [users EXCEPT ![target].canUpload = (kind = "grant")]]

\* /grant and /revoke (handleGrant, handleRevoke)
HandlePermission(kind, target, caller, env) ==
  LET out == permissionChange(kind, target, caller, env) IN
  /\ users' = out.users
  /\ bresp' = [BResp(kind, caller, target, 0, env, 0, FALSE, out.reply)
                 EXCEPT !.success = out.success]
  /\ UNCHANGED <<now, cfgVars, adminVars, clusterVars, dbVars, codecVars,
                 redirectVars, dresp, mtprotoVars>>

\* the handler of the update has returned
HandlerReturns ==
  /\ bresp # None
  /\ bresp' = None
  /\ UNCHANGED <<now, cfgVars, adminVars, clusterVars, dbVars, codecVars,
                 redirectVars, dresp, mtprotoVars, users>>

\* the bot handles one update at a time
NextBot ==
  \/ \E found \in BOOLEAN : MtprotoInit(found)
  \/ /\ bresp = None
     /\ \E kind \in UploadKinds, sender \in TelegramIds, size \in BotFileSizes,
           env \in BotEnvs \ {"update"} : HandleUpload(kind, sender, size, env)
  \/ /\ bresp = None
     /\ \E kind \in {"grant", "revoke"}, target \in TelegramIds,
           caller \in TelegramIds,
           env \in {"ok", "permissionLookup", "userLookup", "update"} :
          HandlePermission(kind, target, caller, env)
  \/ HandlerReturns

InitBot == Init /\ isProduction = FALSE /\ botToken = TRUE /\ adminApiKey = ""

SpecBot == InitBot /\ [][NextBot]_vars

(***************************************************************************)
(* routes/admin: authenticateAdmin and the /admin endpoints.  deleteFile   *)
(* is two steps, one per database call; the other endpoints are one step.  *)
(***************************************************************************)
\* req.headers["x-api-key"] of a request without that header (undefined)
MissingHeader == "<undefined>"

\* values of req.headers["x-api-key"]
ApiKeyHeaders == { MissingHeader, "", "k1", "k2" }

\* a missing header counts as the empty string
KeyMatchesFalsy(header, apiKey) ==
  (IF header = MissingHeader THEN "" ELSE header) = apiKey

\* authenticateAdmin lets the request pass: `requestApiKey !== apiKey` is false
KeyMatches(header, apiKey) == header = apiKey

\* the GET endpoints of the router
AdminReadEndpoints == {"stats", "users", "files", "downloads", "usersPermissions"}

\* the response to an /admin request: dbReads and dbWrites count the
\* database calls made for it, deletedDownloads the rows deleteMany removed,
\* fileDeleted whether the row of UploadFile was removed; dbOk is whether
\* the database was reachable for all of them
AResp(endpoint, header, id, status, dbOk, dbReads, dbWrites) ==
  [endpoint |-> endpoint, header |-> header, id |-> id, status |-> status,
   dbOk |-> dbOk, dbReads |-> dbReads, dbWrites |-> dbWrites,
   deletedDownloads |-> 0, fileDeleted |-> FALSE]

\* GET /admin/stats, /users, /files, /downloads, /users/permissions
AdminRead(endpoint, header, dbOk) ==
  /\ aresp' = IF ~KeyMatches(header, adminApiKey)
              THEN AResp(endpoint, header, <<>>, 401, dbOk, 0, 0)
              ELSE IF dbOk THEN AResp(endpoint, header, <<>>, 200, dbOk, 1, 0)
              ELSE AResp(endpoint, header, <<>>, 500, dbOk, 1, 0)
  /\ UNCHANGED <<now, cfgVars, botVars, adminApiKey, del, clusterVars, dbVars,
                 codecVars, redirectVars, dresp, mtprotoVars>>

\* PUT /admin/users/:id/admin with body { isAdmin }: prisma.user.update
\* throws for a missing row
setAdminStatus(target, header, bodyOk, isAdmin, dbOk) ==
  /\ LET pass == KeyMatches(header, adminApiKey)
         write == pass /\ bodyOk /\ dbOk /\ users[target].exists
     IN /\ aresp' = IF ~pass THEN AResp("setAdminStatus", header, target, 401, dbOk, 0, 0)
                    ELSE IF ~bodyOk THEN AResp("setAdminStatus", header, target, 400, dbOk, 0, 0)
                    ELSE IF ~write THEN AResp("setAdminStatus", header, target, 500, dbOk, 0, 1)
                    ELSE AResp("setAdminStatus", header, target, 200, dbOk, 0, 1)
        /\ users' = IF write THEN [users EXCEPT ![target].isAdmin = isAdmin] ELSE users
  /\ UNCHANGED <<now, cfgVars, bresp, adminApiKey, del, clusterVars, dbVars,
                 codecVars, redirectVars, dresp, mtprotoVars>>

\* PUT /admin/users/:id/permission with body { canUpload }
setUploadPermission(target, header, bodyOk, canUpload, dbOk) ==
  /\ LET pass == KeyMatches(header, adminApiKey)
         write == pass /\ bodyOk /\ dbOk /\ users[target].exists
     IN /\ aresp' = IF ~pass THEN AResp("setUploadPermission", header, target, 401, dbOk, 0, 0)
                    ELSE IF ~bodyOk THEN AResp("setUploadPermission", header, target, 400, dbOk, 0, 0)
                    ELSE IF ~dbOk THEN AResp("setUploadPermission", header, target, 500, dbOk, 1, 0)
                    ELSE IF ~write THEN AResp("setUploadPermission", header, target, 404, dbOk, 1, 0)
                    ELSE AResp("setUploadPermission", header, target, 200, dbOk, 1, 1)
        /\ users' = IF write THEN [users EXCEPT ![target].canUpload = canUpload] ELSE users
  /\ UNCHANGED <<now, cfgVars, bresp, adminApiKey, del, clusterVars, dbVars,
                 codecVars, redirectVars, dresp, mtprotoVars>>

\* ids of PUT /admin/users/:id/...: a row and no row
AdminTargets == { "bob", "carol" }

\* ids of DELETE /admin/files/:id: two rows and no row
DeleteIds == { <<"f", "1">>, <<"f", "3">>, <<"f", "4">> }

\* rows of table Download that reference the file
DownloadsOf(id) == IF id \in RecordIds THEN downloads[id] ELSE 0

\* DELETE /admin/files/:id, up to and including prisma.download.deleteMany
DeleteFileDownloads(id, header, dbOk) ==
  /\ del.pc = "idle"
  /\ IF ~KeyMatches(header, adminApiKey)
     THEN /\ aresp' = AResp("deleteFile", header, id, 401, dbOk, 0, 0)
          /\ UNCHANGED <<del, downloads>>
     ELSE IF ~dbOk
     THEN /\ aresp' = AResp("deleteFile", header, id, 500, dbOk, 0, 1)
          /\ UNCHANGED <<del, downloads>>
     ELSE /\ del' = [pc |-> "downloadsDeleted", id |-> id, header |-> header,
                     deletedDownloads |-> DownloadsOf(id)]
          /\ downloads' = IF id \in RecordIds THEN [downloads EXCEPT ![id] = 0]
                          ELSE downloads
          /\ UNCHANGED aresp
  /\ UNCHANGED <<now, cfgVars, botVars, adminApiKey, clusterVars, files,
                 codecVars, redirectVars, dresp, mtprotoVars>>

\* prisma.uploadFile.delete of deleteFile and the response: the delete throws
\* for a missing row, and for a row that a row of Download references
\* (Download_fileId_fkey is ON DELETE RESTRICT)
DeleteFileRow(dbOk) ==
  /\ del.pc = "downloadsDeleted"
  /\ LET id == del.id
         deleted == /\ dbOk /\ id \in RecordIds
                    /\ files[id] # Absent /\ downloads[id] = 0
     IN /\ files' = IF deleted THEN [files EXCEPT ![id] = Absent] ELSE files
        /\ aresp' = [AResp("deleteFile", del.header, id,
                           IF deleted THEN 200 ELSE 500, dbOk, 0, 2)
                       EXCEPT !.deletedDownloads = del.deletedDownloads,
                              !.fileDeleted = deleted]
  /\ del' = IdleDelete
  /\ UNCHANGED <<now, cfgVars, botVars, adminApiKey, clusterVars, downloads,
                 codecVars, redirectVars, dresp, mtprotoVars>>

\* the response was sent
AdminReturns ==
  /\ aresp # None
  /\ aresp' = None
  /\ UNCHANGED <<now, cfgVars, botVars, adminApiKey, del, clusterVars, dbVars,
                 codecVars, redirectVars, dresp, mtprotoVars>>

\* the /admin requests next to downloads of the files they delete
NextAdmin ==
  \/ /\ aresp = None
     /\ \E endpoint \in AdminReadEndpoints, header \in ApiKeyHeaders, dbOk \in BOOLEAN :
          AdminRead(endpoint, header, dbOk)
  \/ /\ aresp = None
     /\ \E target \in AdminTargets, header \in ApiKeyHeaders, bodyOk \in BOOLEAN,
           isAdmin \in BOOLEAN, dbOk \in BOOLEAN :
          setAdminStatus(target, header, bodyOk, isAdmin, dbOk)
  \/ /\ aresp = None
     /\ \E target \in AdminTargets, header \in ApiKeyHeaders, bodyOk \in BOOLEAN,
           canUpload \in BOOLEAN, dbOk \in BOOLEAN :
          setUploadPermission(target, header, bodyOk, canUpload, dbOk)
  \/ /\ aresp = None
     /\ \E id \in DeleteIds, header \in ApiKeyHeaders, dbOk \in BOOLEAN :
          DeleteFileDownloads(id, header, dbOk)
  \/ /\ aresp = None
     /\ \E dbOk \in BOOLEAN : DeleteFileRow(dbOk)
  \/ AdminReturns
  \/ \E id \in DeleteIds : StreamFile(id, TRUE, TRUE, "ok", TRUE, TRUE)

InitAdmin == Init /\ isProduction = FALSE /\ botToken = TRUE

SpecAdmin == InitAdmin /\ [][NextAdmin]_vars

(***************************************************************************)
(* Production clustering: the primary forks one worker per CPU, and every  *)
(* worker constructs its own TelegramMTProtoService; workerAuth[w] is the  *)
(* authStatus of worker w's instance.  A request is handled by one worker. *)
(***************************************************************************)
\* the outcome of sendAuthCode / signIn on worker w: used is the
\* phone_code_hash signIn sent, NoHash if it made no call
WResp(op, w, used, error) ==
  [op |-> op, worker |-> w, used |-> used, error |-> error]

\* sendAuthCode() on worker w: auth.sendCode dispatches a code with a new
\* phone_code_hash, which the worker stores in its own authStatus
WorkerSendAuthCode(w, ok) ==
  /\ isProduction
  /\ IF ok
     THEN /\ dispatched < MaxDispatches
          /\ dispatched' = dispatched + 1
          /\ workerAuth' = [workerAuth EXCEPT ![w] =
               [@ EXCEPT !.phoneCodeHash = dispatched + 1, !.phoneCodeRequired = TRUE]]
          /\ wresp' = WResp("sendAuthCode", w, NoHash, "none")
     ELSE /\ UNCHANGED <<dispatched, workerAuth>>
          /\ wresp' = WResp("sendAuthCode", w, NoHash, "SendCodeFailed")
  /\ UNCHANGED <<now, cfgVars, botVars, adminVars, dbVars, codecVars, redirectVars,
                 dresp, initialized, authStatus, uploads, started, authCalls>>

\* signIn(code) on worker w: the check and the call read the worker's own
\* authStatus
WorkerSignIn(w, ans) ==
  /\ isProduction
  /\ IF workerAuth[w].phoneCodeHash = NoHash
     THEN /\ wresp' = WResp("signIn", w, NoHash, "NoPendingCode")
          /\ UNCHANGED workerAuth
     ELSE IF ans \in {"user", "noUser"}
     THEN /\ workerAuth' = [workerAuth EXCEPT ![w] =
               [Unauthorized EXCEPT !.authorized = TRUE,
                                    !.user = IF ans = "user" THEN "self" ELSE "none"]]
          /\ wresp' = WResp("signIn", w, workerAuth[w].phoneCodeHash,
                            IF ans = "user" THEN "none" ELSE "TypeError")
     ELSE /\ wresp' = WResp("signIn", w, workerAuth[w].phoneCodeHash, SignInError(ans))
          /\ UNCHANGED workerAuth
  /\ UNCHANGED <<now, cfgVars, botVars, adminVars, dbVars, codecVars, redirectVars,
                 dresp, mtprotoVars>>

\* the response was sent
WorkerReturns ==
  /\ wresp # None
  /\ wresp' = None
  /\ UNCHANGED <<now, cfgVars, botVars, adminVars, workerAuth, dbVars, codecVars,
                 redirectVars, dresp, mtprotoVars>>

\* the handshake requests, each handled by some worker
NextCluster ==
  \/ /\ wresp = None
     /\ \E w \in Workers, ok \in BOOLEAN : WorkerSendAuthCode(w, ok)
  \/ /\ wresp = None
     /\ \E w \in Workers, ans \in SignInAnswers : WorkerSignIn(w, ans)
  \/ WorkerReturns

InitCluster == Init /\ isProduction = TRUE /\ botToken = TRUE /\ adminApiKey = ""

SpecCluster == InitCluster /\ [][NextCluster]_vars

(***************************************************************************)
(* Claims about the codec (checked under SpecCodec)                        *)
(***************************************************************************)
\* the observed call presents the issued token unchanged, same IP argument
PresentsIssuedToken ==
  /\ token # None /\ vcall # None
  /\ vcall.fileId = token.fileId /\ vcall.expires = token.expires
  /\ vcall.signature = token.signature /\ vcall.ip = token.ip

\* C1: a token issued by generateSignedUrl expires SIGNATURE_EXPIRY_MS after
\* its issuance and, presented unchanged with the same IP argument, is
\* accepted by validateSignedUrl at every clock value up to its expiry and
\* rejected at every later one: the clock is read when the token is checked.
C1_RoundTripAndExpiry ==
  PresentsIssuedToken =>
    /\ token.expires = token.issuedAt + 900000
    /\ ~vcall.out.threw
    /\ vcall.out.value = (now <= token.expires)

\* C1 witness: the token is rejected 900001 ms after it was issued
C1_Witness ==
  /\ PresentsIssuedToken
  /\ now = token.issuedAt + 900001
  /\ vcall.out.value = FALSE

\* C2: for an unexpired token, validateSignedUrl returns false when the
\* fileId differs from the issued one, and when the signature differs from
\* the issued one in any single character.
C2_TamperSensitivity ==
  ( /\ token # None /\ vcall # None
    /\ now <= token.expires
    /\ vcall.expires = token.expires /\ vcall.ip = token.ip
    /\ \/ vcall.fileId # token.fileId /\ vcall.signature = token.signature
       \/ vcall.fileId = token.fileId
          /\ vcall.signature \in SingleCharTampers(token.signature) )
  => (~vcall.out.threw /\ vcall.out.value = FALSE)

\* length in bytes of the signature validateSignedUrl expects for a call
ExpectedLength(c) == Len(HexDecode(Hmac(StringToSign(c.fileId, c.expires, c.ip))))

\* C9: validateSignedUrl returns a boolean and never throws; it returns false
\* for an expired token, and false for a signature whose decoded length
\* differs from the length of the expected signature.
C9_NeverThrows ==
  vcall # None =>
    /\ ~vcall.out.threw
    /\ vcall.out.value \in BOOLEAN
    /\ (now > vcall.expires => vcall.out.value = FALSE)
    /\ (Len(HexDecode(vcall.signature)) # ExpectedLength(vcall) => vcall.out.value = FALSE)

\* C9 witness: an unexpired call whose signature decodes to another length
C9_Witness ==
  /\ vcall # None
  /\ now <= vcall.expires
  /\ Len(HexDecode(vcall.signature)) # ExpectedLength(vcall)
  /\ ~vcall.out.threw /\ vcall.out.value = FALSE

(***************************************************************************)
(* Claims about the signed-redirect entry point (checked under SpecRedirect)*)
(***************************************************************************)
\* the observed request presents the link as createSignedRedirectUrl built it
PresentsLink ==
  /\ link # None /\ rresp # None
  /\ rresp.req.fileId = link.fileId
  /\ rresp.req.expires = link.expires
  /\ rresp.req.signature = link.signature

\* the id of a request starts with one of the backend handle prefixes
HasHandlePrefix(fileId) ==
  \E p \in { <<"B", "Q", "A">>, <<"A", "A", "D">>, <<"C", "Q", "A">> } :
    Len(fileId) >= 3 /\ SubSeq(fileId, 1, 3) = p

\* C3: a link built by createSignedRedirectUrl and presented unmodified
\* before its expiry is not answered 403, in development mode and in
\* production mode.
C3_LinkPassesValidation ==
  (PresentsLink /\ now <= link.issuedAt + SIGNATURE_EXPIRY_MS)
    => rresp.res.status # 403

\* the request reaches the signature check and its token is expired, or its
\* signature is not the one the verifier computes
SignatureInvalidOrExpired ==
  /\ rresp # None
  /\ ~HasHandlePrefix(rresp.req.fileId)
  /\ rresp.req.expires # <<>> /\ rresp.req.signature # <<>>
  /\ ~ParseInt(rresp.req.expires).nan
  /\ LET e == ParseInt(rresp.req.expires).value
         ip == IF isProduction THEN rresp.req.ip ELSE NoIp
     IN \/ now > e
        \/ HexDecode(rresp.req.signature)
             # HexDecode(Hmac(StringToSign(rresp.req.fileId, e, ip)))

\* C4: a request that is no direct-handle request and whose signature is
\* invalid or expired is answered 403 without a file-record lookup and
\* without a getFile call.
C4_RejectedBeforeBackend ==
  SignatureInvalidOrExpired =>
    /\ rresp.res.status = 403
    /\ rresp.res.dbLookups = 0
    /\ rresp.res.getFileCalls = 0

\* C4 witness: the link of an existing file, presented unmodified after its
\* expiry, is answered 403
C4_Witness ==
  /\ PresentsLink
  /\ SignatureInvalidOrExpired
  /\ link.fileId \in SeedIds
  /\ now > link.issuedAt + SIGNATURE_EXPIRY_MS
  /\ rresp.res.status = 403

\* C5: a request whose signature verifies and whose file record exists is
\* answered by a redirect to the backend's retrieval URL, never by a
\* response or redirect that has the server proxy the bytes, whatever
\* getFile answers.
C5_RedirectsToBackend ==
  ( /\ rresp # None
    /\ rresp.res.sigChecked /\ rresp.res.status # 403
    /\ rresp.req.fileId \in RecordIds /\ files[rresp.req.fileId] # Absent
    /\ rresp.getFile \in GetFileAnswers )
  => (rresp.res.status = 302 /\ rresp.res.kind = "cdn")

\* C8: a request whose id starts with BQA, AAD or CQA is never put to the
\* signature or expiry check and is never answered 403, whatever its
\* expires and signature parameters.
C8_DirectHandleBypass ==
  (rresp # None /\ HasHandlePrefix(rresp.req.fileId)) =>
    /\ ~rresp.res.sigChecked
    /\ rresp.res.status # 403

\* C8 witness: a CQA handle with an expired expires parameter is redirected
C8_Witness ==
  /\ rresp # None
  /\ StartsWith(rresp.req.fileId, <<"C", "Q", "A">>)
  /\ rresp.req.expires = <<"0">> /\ rresp.req.signature # <<>>
  /\ now > 0
  /\ rresp.res.status = 302

(***************************************************************************)
(* Claims about the plain download path (checked under SpecDownload)       *)
(***************************************************************************)
\* C6: when the backend lookup for an existing file record fails (getFile
\* answers not-ok or without a file path, or throws), the plain download path
\* answers with the manual-retrieval response and not with an error status.
C6_LookupFailureDowngrades ==
  (dresp # None /\ dresp.file # NoFile /\ dresp.res.getFile \in {"notOk", "throw"})
    => (dresp.res.kind = "manual" /\ dresp.res.status < 400)

\* C7: a file record of exactly 20971520 bytes takes the inline-stream side of
\* the size check, and a record of 20971521 bytes or more takes the
\* manual-retrieval side, on which neither getFile nor the bytes are requested.
C7_ThresholdBoundary ==
  (dresp # None /\ dresp.file # NoFile) =>
    /\ dresp.fileSize = 20971520 =>
         (dresp.res.branch = "small" /\ dresp.res.kind # "manual")
    /\ dresp.fileSize >= 20971521 =>
         /\ dresp.res.branch = "large"
         /\ dresp.res.kind # "inline"
         /\ dresp.res.getFile = "none"
         /\ dresp.res.byteFetches = 0

\* C7 witness: a file of exactly the threshold size is streamed inline
C7_Witness ==
  /\ dresp # None /\ dresp.file # NoFile
  /\ dresp.fileSize = 20971520
  /\ dresp.res.kind = "inline" /\ dresp.res.status = 200

(***************************************************************************)
(* Claims about the chunked upload (checked under SpecUpload)              *)
(***************************************************************************)
\* C10: in every chunked upload the number of acknowledged parts never
\* exceeds totalParts, and messages.sendMedia is called, with parts =
\* totalParts, only when every part 0..totalParts-1 has been acknowledged.
C10_CommitPrecondition ==
  \A s \in Sessions :
    LET u == uploads[s] IN
    /\ Cardinality(u.acked) <= u.totalParts
    /\ u.acked \subseteq 0..(u.totalParts - 1)
    /\ u.commitParts # NotCommitted =>
         /\ u.commitParts = u.totalParts
         /\ u.acked = 0..(u.totalParts - 1)

\* C10 witness: a three-part upload whose commit call was made
C10_Witness ==
  \E s \in Sessions :
    /\ uploads[s].totalParts = 3
    /\ uploads[s].commitParts = 3
    /\ uploads[s].pc = "done"
\* indices of the upload.saveFilePart calls of an upload, in sending order
SentIndices(u) == [k \in 1..Len(u.parts) |-> u.parts[k].file_part]

\* C11: within one uploadLargeFile call the parts are sent one after the
\* other in index order 0, 1, ..: the k-th upload.saveFilePart call carries
\* file_part = k - 1 and the upload's file_id, it is made only after every
\* earlier part was acknowledged, no index is sent twice and none beyond
\* totalParts - 1; calls of different uploads may interleave.
C11_SequentialParts ==
  \A s \in Sessions :
    LET u == uploads[s] IN
    /\ Len(u.parts) <= u.totalParts
    /\ \A k \in 1..Len(u.parts) :
         /\ SentIndices(u)[k] = k - 1
         /\ u.parts[k].file_id = u.mtprotoFileId
         /\ (k < Len(u.parts) => (k - 1) \in u.acked)
    /\ u.acked \subseteq 0..(Len(u.parts) - 1)

\* C11 witness: one upload sent its three parts while the other one is
\* between its parts
C11_Witness ==
  /\ Len(uploads[1].parts) = 3 /\ uploads[1].acked = {0, 1, 2}
  /\ uploads[2].pc = "parts" /\ Len(uploads[2].parts) = 2

\* C12: once upload.saveFilePart failed for part i the upload has failed for
\* good: the caller gets the failure, part i was sent once, no part above i
\* was or will be sent, messages.sendMedia is never called and no row is
\* written.
C12_PartFailureIsFinal ==
  [][\A s \in Sessions :
       /\ uploads'[s].error = "PartFailed" =>
            LET u == uploads'[s]
                n == Len(u.parts)
            IN /\ u.pc = "failed"
               /\ u.commitParts = NotCommitted
               /\ files'[Uuid(s)] = Absent
               /\ n >= 1
               /\ u.parts[n].file_part \notin u.acked
               /\ \A k \in 1..(n - 1) : u.parts[k].file_part < u.parts[n].file_part
       /\ uploads[s].error = "PartFailed" => uploads'[s] = uploads[s]]_vars

\* C12 witness: part 1 of three failed, part 2 was not sent
C12_Witness ==
  /\ uploads[1].error = "PartFailed"
  /\ uploads[1].totalParts = 3
  /\ SentIndices(uploads[1]) = <<0, 1>>
  /\ uploads[1].acked = {0}

\* C13: the row of an upload exists only after messages.sendMedia answered
\* with a document for it: an upload that failed (a part failed, sendMedia
\* was rejected, or its answer held no document) has no row.
C13_RecordOnlyAfterDocument ==
  \A s \in Sessions :
    /\ files[Uuid(s)] # Absent =>
         /\ uploads[s].pc = "done"
         /\ uploads[s].cause = "document"
         /\ uploads[s].commitParts = uploads[s].totalParts
    /\ uploads[s].pc = "failed" => files[Uuid(s)] = Absent

\* C13 witness: one upload ended on an answer without a document and has no
\* row, the other one has its row
C13_Witness ==
  /\ uploads[1].error = "NoDocument" /\ files[Uuid(1)] = Absent
  /\ uploads[2].pc = "done" /\ files[Uuid(2)] = uploads[2].fileSize

(***************************************************************************)
(* Claims about the handshake and the gate (checked under SpecAuth)        *)
(***************************************************************************)
\* C14: an uploadLargeFile call made while authStatus.authorized is false
\* fails at once with the auth-required error; an upload that failed at the
\* gate has sent no upload.saveFilePart and no messages.sendMedia and has no
\* row, now or later.
C14_AuthGate ==
  [][\A s \in Sessions :
       /\ ( /\ uploads[s].pc = "idle" /\ uploads'[s].pc # "idle"
            /\ ~authStatus.authorized )
          => /\ uploads'[s].pc = "failed"
             /\ uploads'[s].error = "AuthRequired"
             /\ files' = files
       /\ uploads'[s].error = "AuthRequired"
          => /\ uploads'[s].pc = "failed"
             /\ uploads'[s].parts = <<>>
             /\ uploads'[s].commitParts = NotCommitted
             /\ files'[Uuid(s)] = Absent]_vars

\* C14 witness: an upload was refused at the gate while a code was pending
C14_Witness ==
  /\ uploads[1].error = "AuthRequired"
  /\ ~authStatus.authorized
  /\ authStatus.phoneCodeHash # NoHash

\* C15: when auth.signIn answers SESSION_PASSWORD_NEEDED, signIn throws the
\* two-factor-unsupported error, that auth.signIn call is the only backend
\* call of the attempt, and the step changes neither authStatus nor
\* initialized: no session becomes authorized through it.
C15_TwoFactorUnsupported ==
  [][\A c \in AuthCallers :
       ( /\ authCalls[c].pc = "signIn"
         /\ authCalls'[c].answer = "SESSION_PASSWORD_NEEDED" )
       => /\ authCalls'[c].pc = "threw"
          /\ authCalls'[c].error = "TwoFactorUnsupported"
          /\ authCalls'[c].backendCalls = 1
          /\ authStatus' = authStatus
          /\ initialized' = initialized
          /\ dispatched' = dispatched]_vars

\* C15 witness: a signIn ended on the two-factor error and the session is
\* not authorized
C15_Witness ==
  \E c \in AuthCallers :
    /\ authCalls[c].op = "signIn"
    /\ authCalls[c].error = "TwoFactorUnsupported"
    /\ authCalls[c].hash = dispatched
    /\ ~authStatus.authorized /\ ~initialized

\* C16: signIn called while the session is not authorized and holds no
\* phoneCodeHash throws the no-pending-code error without calling auth.signIn
\* and without changing the session.
C16_NoPendingCode ==
  [][\A c \in AuthCallers :
       ( /\ authCalls[c].op = "none" /\ authCalls'[c].op = "signIn"
         /\ ~authStatus.authorized
         /\ authStatus.phoneCodeHash = NoHash )
       => /\ authCalls'[c].pc = "threw"
          /\ authCalls'[c].error = "NoPendingCode"
          /\ authCalls'[c].backendCalls = 0
          /\ authStatus' = authStatus
          /\ initialized' = initialized]_vars

\* C16 witness: a signIn made before any code was dispatched was refused
C16_Witness ==
  \E c \in AuthCallers :
    /\ authCalls[c].error = "NoPendingCode"
    /\ dispatched = 0
    /\ ~authStatus.authorized

\* C17: a sendAuthCode call made while the session is authorized is rejected:
\* the backend dispatches no code for it and it does not return a hash.
C17_RequestCodeRefusedWhenAuthorized ==
  \A c \in AuthCallers :
    (authCalls[c].op = "sendAuthCode" /\ authCalls[c].wasAuthorized)
    => /\ authCalls[c].hash = NoHash
       /\ authCalls[c].pc # "returned"

\* no sendAuthCode / signIn call is between its first and its last step
Quiescent == \A c \in AuthCallers : authCalls[c].pc \in {"idle", "returned", "threw"}

\* C18: concurrent sendAuthCode and signIn calls behave as if run one at a
\* time: the hash signIn sends is the hash of the backend's most recent
\* dispatch, so is the hash the session holds once no call is in flight, and
\* an authorized session does not hold the hash written by a sendAuthCode
\* that started before the session was authorized.
C18_HandshakeSerializable ==
  /\ \A c \in AuthCallers :
       (authCalls[c].op = "signIn" /\ authCalls[c].backendCalls > 0)
       => authCalls[c].hash = authCalls[c].latest
  /\ Quiescent => authStatus.phoneCodeHash \in {NoHash, dispatched}
  /\ authStatus.authorized =>
       \A c \in AuthCallers :
         ~ ( /\ authCalls[c].op = "sendAuthCode" /\ authCalls[c].pc = "returned"
             /\ ~authCalls[c].wasAuthorized
             /\ authCalls[c].hash = authStatus.phoneCodeHash )

(***************************************************************************)
(* Claims about the session and the upload ids (checked under SpecUpload)  *)
(***************************************************************************)
\* C19: when the backend rejects a call of an upload because it no longer
\* knows the session, the service leaves the authorized state, and an upload
\* started after such a rejection fails at the gate.
C19_SessionInvalidation ==
  [][\A s \in Sessions :
       /\ ( /\ uploads[s].cause # "AUTH_KEY_UNREGISTERED"
            /\ uploads'[s].cause = "AUTH_KEY_UNREGISTERED" )
          => (~authStatus'.authorized /\ ~initialized')
       /\ ( /\ \E t \in Sessions : uploads[t].cause = "AUTH_KEY_UNREGISTERED"
            /\ uploads[s].pc = "idle" /\ uploads'[s].pc # "idle" )
          => uploads'[s].error = "AuthRequired"]_vars

\* an uploadLargeFile call between its first part and its outcome
InFlight(u) == u.pc \in {"parts", "commit"}

\* C20: two uploads in flight at the same time never send the same file_id.
C20_DistinctUploadIds ==
  \A s, t \in Sessions :
    (s # t /\ InFlight(uploads[s]) /\ InFlight(uploads[t]))
    => \A j \in 1..Len(uploads[s].parts), k \in 1..Len(uploads[t].parts) :
         uploads[s].parts[j].file_id # uploads[t].parts[k].file_id

(***************************************************************************)
(* Claims about the chunk math (checked under SpecChunk)                   *)
(***************************************************************************)
\* n is the ceiling of size / partSize
IsCeil(n, size) == n >= 0 /\ n * partSize >= size /\ (n = 0 \/ (n - 1) * partSize < size)

\* C21: when messages.sendMedia is called, the number of upload.saveFilePart
\* calls made and the `parts` it carries both equal ceil(fileSize / partSize)
\* for the part size 512 * 1024; for 10,000,000 bytes this is 20.
C21_ChunkCount ==
  \A s \in Sessions :
    LET u == uploads[s] IN
    u.commitParts # NotCommitted =>
      /\ IsCeil(u.commitParts, u.fileSize)
      /\ Len(u.parts) = u.commitParts
      /\ (u.fileSize = 10000000 => u.commitParts = 20)
      /\ partSize = 524288

\* C21 witness: the 10,000,000 byte file was committed after 20 parts
C21_Witness ==
  /\ uploads[1].fileSize = 10000000
  /\ uploads[1].commitParts = 20
  /\ Len(uploads[1].parts) = 20

\* C27: the parts sent by one upload partition the file: part i carries the
\* bytes from i * partSize up to min((i + 1) * partSize, fileSize), every
\* part but the last has partSize bytes, the last has 1..partSize bytes, and
\* once all parts are sent they cover the file from byte 0 to fileSize with
\* no gap and no overlap.
C27_PartsPartitionFile ==
  \A s \in Sessions :
    LET u == uploads[s]
        n == Len(u.parts)
    IN /\ \A k \in 1..n :
            /\ u.parts[k].start = (k - 1) * partSize
            /\ u.parts[k].end = IF k * partSize <= u.fileSize
                                THEN k * partSize ELSE u.fileSize
            /\ u.parts[k].end - u.parts[k].start >= 1
            /\ u.parts[k].end - u.parts[k].start <= partSize
            /\ (k < n => u.parts[k].end - u.parts[k].start = partSize)
            /\ (k < n => u.parts[k + 1].start = u.parts[k].end)
       /\ u.commitParts # NotCommitted =>
            IF n = 0 THEN u.fileSize = 0 ELSE u.parts[n].end = u.fileSize

\* C27 witness: a file of three parts and one byte was sent in four parts,
\* the last of one byte
C27_Witness ==
  /\ uploads[1].fileSize = 3 * partSize + 1
  /\ uploads[1].commitParts = 4
  /\ uploads[1].parts[4].end - uploads[1].parts[4].start = 1

(***************************************************************************)
(* Claims about the bot and the permissions (checked under SpecBot)        *)
(***************************************************************************)
\* the sender of the update just handled is registered and has canUpload or
\* is an admin
SenderPermitted ==
  /\ users[bresp.sender].exists
  /\ (users[bresp.sender].canUpload \/ users[bresp.sender].isAdmin)

\* C22: with the MTProto session authenticated, a video, audio, photo or
\* document above the 50 MB Bot API limit sent by a permitted user, all of
\* whose calls succeed, is uploaded through mtprotoService.uploadLargeFile,
\* gets its row, and the sender gets the download link.
C22_LargeFileThroughMtproto ==
  ( /\ bresp # None
    /\ bresp.kind \in UploadKinds
    /\ bresp.size > BOT_UPLOAD_LIMIT
    /\ bresp.env = "ok"
    /\ initialized /\ authStatus.authorized
    /\ SenderPermitted )
  => /\ bresp.largeCalls = 1
     /\ bresp.record
     /\ bresp.reply = "link"

\* C29: /grant and /revoke change a row of table User only when the caller
\* is an admin and the target is registered, and then only the target's
\* canUpload; in every other case they answer success = false and change no
\* row; revoke never changes the row of an admin, and an upload by an admin
\* whose permission lookup succeeds is never denied.
C29_PermissionChanges ==
  [][ /\ users' # users =>
           /\ bresp' # None
           /\ bresp'.kind \in {"grant", "revoke"}
           /\ bresp'.success
           /\ users[bresp'.sender].exists /\ users[bresp'.sender].isAdmin
           /\ users[bresp'.target].exists
           /\ users' = [users EXCEPT ![bresp'.target].canUpload = (bresp'.kind = "grant")]
           /\ (bresp'.kind = "revoke" => ~users[bresp'.target].isAdmin)
      /\ ( /\ bresp = None /\ bresp' # None
           /\ bresp'.kind \in {"grant", "revoke"}
           /\ ~ ( /\ users[bresp'.sender].exists /\ users[bresp'.sender].isAdmin
                  /\ users[bresp'.target].exists ) )
         => (~bresp'.success /\ users' = users)
      /\ ( /\ bresp = None /\ bresp' # None
           /\ bresp'.kind \in UploadKinds
           /\ users[bresp'.sender].exists /\ users[bresp'.sender].isAdmin
           /\ bresp'.env # "permissionLookup" )
         => bresp'.reply # "denied" ]_vars

\* C29 witness: the admin revoked alice's permission, and was refused when
\* revoking an admin's
C29_Witness ==
  /\ bresp # None
  /\ bresp.kind = "revoke" /\ bresp.sender = "admin" /\ bresp.target = "admin"
  /\ bresp.reply = "targetIsAdmin"
  /\ ~users["alice"].canUpload

\* C30: an upload handler forwards a file to the channel, and a row of
\* UploadFile is created, only for a sender who at the permission check is
\* registered and has canUpload or is an admin.
C30_UploadNeedsPermission ==
  [][ /\ files' # files =>
           /\ bresp' # None /\ bresp'.kind \in UploadKinds
           /\ bresp'.record
           /\ users[bresp'.sender].exists
           /\ (users[bresp'.sender].canUpload \/ users[bresp'.sender].isAdmin)
      /\ ( /\ bresp = None /\ bresp' # None
           /\ bresp'.kind \in UploadKinds
           /\ ~ ( /\ users[bresp'.sender].exists
                  /\ (users[bresp'.sender].canUpload \/ users[bresp'.sender].isAdmin) ) )
         => ( /\ bresp'.forwarded = 0 /\ ~bresp'.record /\ bresp'.largeCalls = 0
              /\ files' = files ) ]_vars

\* C30 witness: alice, whose permission was revoked, is denied; the admin's
\* file has its row
C30_Witness ==
  /\ bresp # None
  /\ bresp.kind = "video" /\ bresp.sender = "alice"
  /\ ~users["alice"].canUpload
  /\ bresp.reply = "denied" /\ bresp.forwarded = 0
  /\ files[BotUuid(1)] # Absent

\* C23: a request to an /admin endpoint whose x-api-key header is not the
\* configured admin key (a missing header included, the empty default key
\* included) is answered 401 without a database read or write, and only a
\* request that carries the key starts deleting
C23_AdminKeyRequired ==
  [][ /\ (aresp = None /\ aresp' # None /\ aresp'.header # adminApiKey)
         => /\ aresp'.status = 401
            /\ aresp'.dbReads = 0 /\ aresp'.dbWrites = 0
            /\ dbVars' = dbVars /\ users' = users /\ del' = del
      /\ (del.pc = "idle" /\ del'.pc # "idle") => del'.header = adminApiKey
    ]_vars

\* a request without the header against the empty default key was refused
C23_Witness ==
  /\ adminApiKey = ""
  /\ aresp # None
  /\ aresp.header = MissingHeader
  /\ aresp.endpoint = "deleteFile"
  /\ aresp.status = 401

\* C28: with the database reachable, a deleteFile that answers success
\* removed the file's row and left no download row of it, and one that
\* answers failure removed nothing
C28_DeleteAtomic ==
  (aresp # None /\ aresp.endpoint = "deleteFile" /\ aresp.dbOk
                /\ aresp.status \in {200, 500})
  => /\ aresp.status = 200 => (aresp.fileDeleted /\ DownloadsOf(aresp.id) = 0)
     /\ aresp.status = 500 => (~aresp.fileDeleted /\ aresp.deletedDownloads = 0)

C24_SharedPendingHash ==
  [][ ( /\ wresp = None /\ wresp' # None
        /\ wresp'.op = "signIn"
        /\ dispatched > 0
        /\ \A w \in Workers : ~workerAuth[w].authorized )
      => wresp'.used = dispatched
    ]_vars

====
